---- MODULE Spec2Model ----
(***************************************************************************)
(* Model of cloud/digital_ocean/do_floating_ip_facts.py: the Response      *)
(* adapter, the Rest client wrapper, core() and main().                    *)
(*                                                                         *)
(* Python values are tagged records.  A raw text (a response body) is the  *)
(* sequence of its JSON lexemes, so that json.loads is a parser that can   *)
(* fail and not the identity.  Exceptions are records (type, msg); str(e)  *)
(* is the msg field, with the texts of a Python 3 interpreter.             *)
(***************************************************************************)
EXTENDS Integers, Sequences, FiniteSets, TLC

(***************************************************************************)
(* Python values                                                           *)
(***************************************************************************)
PyNone == [t |-> "None"]
PyStr(s) == [t |-> "str", s |-> s]
PyNum(lit) == [t |-> "num", lit |-> lit]
PyBool(b) == [t |-> "bool", b |-> b]
PyList(elems) == [t |-> "list", elems |-> elems]
PyDict(d) == [t |-> "dict", d |-> d]
PyText(toks) == [t |-> "text", toks |-> toks]

NoExc == [type |-> "none", msg |-> ""]
Raise(type, msg) == [exc |-> [type |-> type, msg |-> msg], val |-> PyNone]
Return(v) == [exc |-> NoExc, val |-> v]

(***************************************************************************)
(* JSON lexemes                                                            *)
(***************************************************************************)
Punct(c) == [k |-> "punct", c |-> c]
StrTok(s) == [k |-> "str", c |-> s]
NumTok(lit) == [k |-> "num", c |-> lit]
LitTok(w) == [k |-> "lit", c |-> w]
BadTok(c) == [k |-> "bad", c |-> c]
LBRACE == Punct("{")
RBRACE == Punct("}")
LBRACKET == Punct("[")
RBRACKET == Punct("]")
COLON == Punct(":")
COMMA == Punct(",")
NullTok == LitTok("null")

(***************************************************************************)
(* Response texts: sample documents and every truncation of one            *)
(***************************************************************************)
\* texts of more lexemes than this are cut to this length
MaxTextLen == 14

Docs ==
    { <<LBRACE, StrTok("message"), COLON, StrTok("Unauthorized"), RBRACE>>,
      <<LBRACE, StrTok("floating_ips"), COLON, LBRACKET, RBRACKET, COMMA,
        StrTok("meta"), COLON, LBRACE, StrTok("total"), COLON, NumTok("0"),
        RBRACE, RBRACE>>,
      <<LBRACE, StrTok("floating_ips"), COLON, LBRACKET,
        LBRACE, StrTok("ip"), COLON, StrTok("45.55.96.47"), COMMA,
        StrTok("locked"), COLON, LitTok("false"), RBRACE, RBRACKET, COMMA,
        StrTok("meta"), COLON, LBRACE, StrTok("total"), COLON, NumTok("1"),
        RBRACE, RBRACE>>,
      <<LBRACKET, StrTok("message"), RBRACKET>>,
      <<StrTok("Unauthorized")>>,
      <<NullTok, NullTok>>,
      <<BadTok("<html>")>> }

Min(a, b) == IF a < b THEN a ELSE b

\* every document and every truncation of one, the empty text included
Texts ==
    UNION { { SubSeq(d, 1, n) : n \in 0..Min(Len(d), MaxTextLen) } : d \in Docs }

(***************************************************************************)
(* json.loads: a recursive-descent parser over the lexemes.  A result is   *)
(* (ok, val, rest); ok = FALSE is the decoder's ValueError.                *)
(***************************************************************************)
ParseFail == [ok |-> FALSE, val |-> PyNone, rest |-> <<>>]
ParseOk(v, rest) == [ok |-> TRUE, val |-> v, rest |-> rest]

LitValue(w) ==
    IF w = "null" THEN PyNone ELSE PyBool(w = "true")

RECURSIVE ParseValue(_)
RECURSIVE ParseElems(_, _)
RECURSIVE ParseMembers(_, _)

ParseElems(toks, acc) ==
    LET v == ParseValue(toks) IN
    IF ~v.ok \/ v.rest = <<>> THEN ParseFail
    ELSE IF Head(v.rest) = COMMA
         THEN ParseElems(Tail(v.rest), Append(acc, v.val))
    ELSE IF Head(v.rest) = RBRACKET
         THEN ParseOk(PyList(Append(acc, v.val)), Tail(v.rest))
    ELSE ParseFail

ParseMembers(toks, acc) ==
    IF Len(toks) < 2 \/ Head(toks).k # "str" \/ toks[2] # COLON THEN ParseFail
    ELSE LET key == Head(toks).c
             v == ParseValue(SubSeq(toks, 3, Len(toks)))
             d == [x \in DOMAIN acc \cup {key} |->
                      IF x = key THEN v.val ELSE acc[x]]
         IN  IF ~v.ok \/ v.rest = <<>> THEN ParseFail
             ELSE IF Head(v.rest) = COMMA
                  THEN ParseMembers(Tail(v.rest), d)
             ELSE IF Head(v.rest) = RBRACE
                  THEN ParseOk(PyDict(d), Tail(v.rest))
             ELSE ParseFail

ParseValue(toks) ==
    IF toks = <<>> THEN ParseFail
    ELSE LET h == Head(toks)
             r == Tail(toks)
         IN  IF h.k = "lit" THEN ParseOk(LitValue(h.c), r)
             ELSE IF h.k = "str" THEN ParseOk(PyStr(h.c), r)
             ELSE IF h.k = "num" THEN ParseOk(PyNum(h.c), r)
             ELSE IF h = LBRACKET
                  THEN IF r # <<>> /\ Head(r) = RBRACKET
                       THEN ParseOk(PyList(<<>>), Tail(r))
                       ELSE ParseElems(r, <<>>)
             ELSE IF h = LBRACE
                  THEN IF r # <<>> /\ Head(r) = RBRACE
                       THEN ParseOk(PyDict(<<>>), Tail(r))
                       ELSE ParseMembers(r, <<>>)
             ELSE ParseFail

\* the parse of every response text, computed once
ParsedTexts == [tx \in Texts |-> ParseValue(tx)]

json_loads(text) ==
    LET r == IF text.toks \in Texts THEN ParsedTexts[text.toks]
             ELSE ParseValue(text.toks) IN
    IF ~r.ok THEN Raise("ValueError", "Expecting value")
    ELSE IF r.rest # <<>> THEN Raise("ValueError", "Extra data")
    ELSE Return(r.val)

(***************************************************************************)
(* module.jsonify (json.dumps): the serializer, value to lexemes.          *)
(***************************************************************************)
RECURSIVE DumpValue(_)
RECURSIVE DumpElems(_)
RECURSIVE DumpMembers(_, _)

DumpElems(es) ==
    IF Len(es) = 0 THEN <<>>
    ELSE DumpValue(Head(es)) \o
         (IF Len(es) = 1 THEN <<>> ELSE <<COMMA>> \o DumpElems(Tail(es)))

DumpMembers(d, keys) ==
    IF keys = {} THEN <<>>
    ELSE LET key == CHOOSE x \in keys : TRUE IN
         <<StrTok(key), COLON>> \o DumpValue(d[key]) \o
         (IF keys = {key} THEN <<>>
          ELSE <<COMMA>> \o DumpMembers(d, keys \ {key}))

DumpValue(v) ==
    CASE v.t = "None" -> <<NullTok>>
      [] v.t = "str"  -> <<StrTok(v.s)>>
      [] v.t = "num"  -> <<NumTok(v.lit)>>
      [] v.t = "bool" -> <<LitTok(IF v.b THEN "true" ELSE "false")>>
      [] v.t = "list" -> <<LBRACKET>> \o DumpElems(v.elems) \o <<RBRACKET>>
      [] v.t = "dict" -> <<LBRACE>> \o DumpMembers(v.d, DOMAIN v.d) \o <<RBRACE>>

jsonify(data) == PyText(DumpValue(data))

(***************************************************************************)
(* str(v) and repr(v) as '{}'.format renders a value                       *)
(***************************************************************************)
RECURSIVE PyRepr(_)
RECURSIVE ReprElems(_)
RECURSIVE ReprMembers(_, _)

ReprElems(es) ==
    IF Len(es) = 0 THEN ""
    ELSE PyRepr(Head(es)) \o
         (IF Len(es) = 1 THEN "" ELSE ", " \o ReprElems(Tail(es)))

ReprMembers(d, keys) ==
    IF keys = {} THEN ""
    ELSE LET key == CHOOSE x \in keys : TRUE IN
         "'" \o key \o "': " \o PyRepr(d[key]) \o
         (IF keys = {key} THEN "" ELSE ", " \o ReprMembers(d, keys \ {key}))

PyRepr(v) ==
    CASE v.t = "None" -> "None"
      [] v.t = "str"  -> "'" \o v.s \o "'"
      [] v.t = "num"  -> v.lit
      [] v.t = "int"  -> ToString(v.n)
      [] v.t = "bool" -> IF v.b THEN "True" ELSE "False"
      [] v.t = "list" -> "[" \o ReprElems(v.elems) \o "]"
      [] v.t = "dict" -> "{" \o ReprMembers(v.d, DOMAIN v.d) \o "}"

PyFormat(v) == IF v.t = "str" THEN v.s ELSE PyRepr(v)

PyInt(n) == [t |-> "int", n |-> n]

\* variant: a lookup that yields None where there is nothing to index
SubscriptLenient(v, key) ==
    IF v.t = "dict" /\ key \in DOMAIN v.d THEN Return(v.d[key])
    ELSE Return(PyNone)

\* v[key] for a string key
Subscript(v, key) ==
    CASE v.t = "dict" -> IF key \in DOMAIN v.d THEN Return(v.d[key])
                         ELSE Raise("KeyError", "'" \o key \o "'")
      [] v.t = "None" -> Raise("TypeError", "'NoneType' object is not subscriptable")
      [] v.t = "list" -> Raise("TypeError", "list indices must be integers or slices, not str")
      [] v.t = "str"  -> Raise("TypeError", "string indices must be integers")
      [] v.t = "num"  -> Raise("TypeError", "'int' object is not subscriptable")
      [] v.t = "bool" -> Raise("TypeError", "'bool' object is not subscriptable")

(***************************************************************************)
(* class Response                                                          *)
(***************************************************************************)
RespObj(toks) == [t |-> "resp", data |-> toks]

\* bool(x) for the values a body can take
Truthy(x) == x.t # "None" /\ (x.t = "text" => Len(x.toks) > 0)

Response(resp, info) ==
    [body |-> IF Truthy(resp) THEN PyText(resp.data) ELSE PyNone,
     info |-> info]

\* variant: no fallback to the metadata body
json_no_fallback(self) ==
    IF ~Truthy(self.body) THEN [read |-> "none"] @@ Return(PyNone)
    ELSE LET r == json_loads(self.body) IN
         [read |-> "body"] @@
         (IF r.exc.type = "ValueError" THEN Return(PyNone) ELSE r)

\* Response.json; the field read names the text handed to json.loads
json(self) ==
    IF ~Truthy(self.body)
    THEN IF "body" \in DOMAIN self.info
         THEN [read |-> "info"] @@ json_loads(self.info.body)
         ELSE [read |-> "none"] @@ Return(PyNone)
    ELSE LET r == json_loads(self.body) IN
         [read |-> "body"] @@
         (IF r.exc.type = "ValueError" THEN Return(PyNone) ELSE r)

status_code(self) ==
    IF "status" \in DOMAIN self.info THEN Return(PyInt(self.info.status))
    ELSE Raise("KeyError", "'status'")

(***************************************************************************)
(* class Rest                                                              *)
(***************************************************************************)
baseurl == "https://api.digitalocean.com/v2"

Rest(headers) == [headers |-> headers, baseurl |-> baseurl]

RECURSIVE Concat(_)
Concat(chunks) ==
    IF Len(chunks) = 0 THEN "" ELSE Head(chunks) \o Concat(Tail(chunks))

\* a path is the sequence of its chunks, each "/" or free of slashes
_url_builder(self, path) ==
    IF Len(path) = 0 THEN Raise("IndexError", "string index out of range")
    ELSE LET p == IF path[1] = "/" THEN Tail(path) ELSE path IN
         Return(PyStr(self.baseurl \o "/" \o Concat(p)))

(***************************************************************************)
(* Inputs: tokens, response texts, response metadata                       *)
(***************************************************************************)
\* the parameter and the environment variable, each unset or set
ParamTokens == {PyNone, PyStr("abc123")}
EnvTokens == {PyNone, PyStr("s3 cr3t")}

StatusOK == 200
Statuses == {StatusOK, 401, 500, -1}

Resps == {PyNone} \cup {RespObj(tx) : tx \in Texts}

\* the metadata dictionary of fetch_url: a function of its keys
InfoOf(st, bd) ==
    [key \in (IF st = {} THEN {} ELSE {"status"}) \cup
             (IF bd = {} THEN {} ELSE {"body"}) |->
        IF key = "status" THEN CHOOSE x \in st : TRUE
        ELSE PyText(CHOOSE x \in bd : TRUE)]

Infos ==
    { InfoOf(st, bd) :
        st \in {{}} \cup {{x} : x \in Statuses},
        bd \in {{}} \cup {{tx} : tx \in Texts} }

Paths == { <<"floating_ips?page=1&per_page=20">>,
           <<"/", "floating_ips">>,
           <<"/", "/", "floating_ips">>,
           <<>> }

Datas == { PyNone, PyDict([key \in {"droplet_id"} |-> PyNum("7")]) }

CallHeaders ==
    { PyNone,
      PyDict([key \in {"X-Request-Id"} |-> "r1"]),
      PyDict([key \in {"Content-type"} |-> "text/plain"]) }

(***************************************************************************)
(* State                                                                   *)
(***************************************************************************)
VARIABLES
    pc,             \* position of the invocation
    params,         \* the oauth_token task parameter, or None
    environ,        \* the DO_OAUTH_TOKEN environment variable, or None
    module_params,  \* module.params['oauth_token'] after validation
    call,           \* arguments of the last call of a Rest verb
    requests,       \* requests handed to fetch_url, in order
    response,       \* the Response returned by Rest.send
    l_status_code,  \* core's local status_code
    l_json,         \* core's local json
    json_read,      \* which text the last read of Response.json parsed
    exc,            \* the exception in flight
    raised_at,      \* source line that raised it
    outputs         \* results emitted by exit_json / fail_json, in order

vars == <<pc, params, environ, module_params, call, requests, response,
          l_status_code, l_json, json_read, exc, raised_at, outputs>>

NoCall == [method |-> "", path |-> <<>>, data |-> PyNone, headers |-> PyNone]
NoResponse == [body |-> PyNone, info |-> <<>>]

\* results of AnsibleModule.exit_json / fail_json
exit_json(changed, data) ==
    [kind |-> "success", changed |-> changed, data |-> data, msg |-> ""]
fail_json(msg) ==
    [kind |-> "failure", changed |-> FALSE, data |-> PyNone, msg |-> msg]
\* sys.exit(code), raised by both once the result is printed
SystemExit(code) == [type |-> "SystemExit", msg |-> ToString(code)]

Init ==
    /\ pc = "main"
    /\ params \in ParamTokens
    /\ environ \in EnvTokens
    /\ module_params = PyNone
    /\ call = NoCall
    /\ requests = <<>>
    /\ response = NoResponse
    /\ l_status_code = PyNone
    /\ l_json = PyNone
    /\ json_read = "unread"
    /\ exc = NoExc
    /\ raised_at = 0
    /\ outputs = <<>>

(***************************************************************************)
(* main, lines 195-204: AnsibleModule(argument_spec) resolves oauth_token  *)
(* from the parameter, then from DO_OAUTH_TOKEN, and fails when a required *)
(* argument is missing; that fail_json exits outside main's try block.     *)
(***************************************************************************)
env_fallback(env) == env

oauth_token(p, env) == IF p.t # "None" THEN p ELSE env_fallback(env)

\* variant: the argument is optional
required_optional == FALSE

required == TRUE

AnsibleModule ==
    /\ pc = "main"
    /\ LET tok == oauth_token(params, environ) IN
       IF required /\ tok.t = "None"
       THEN /\ outputs' = Append(outputs,
                  fail_json("missing required arguments: oauth_token"))
            /\ pc' = "exited"
            /\ UNCHANGED module_params
       ELSE /\ module_params' = tok
            /\ pc' = "core"
            /\ UNCHANGED outputs
    /\ UNCHANGED <<params, environ, call, requests, response,
                   l_status_code, l_json, json_read, exc, raised_at>>

\* line 160-162: whatever fetch_url returns, wrapped
FetchedResponses == { Response(resp, info) : resp \in Resps, info \in Infos }

(***************************************************************************)
(* Rest.send and the verbs                                                 *)
(***************************************************************************)
send_headers(self, headers) == self.headers

send(self, method, path, data, headers, ret) ==
    /\ call' = [method |-> method, path |-> path, data |-> data,
                headers |-> headers]
    /\ LET url == _url_builder(self, path) IN
       IF url.exc # NoExc
       THEN /\ exc' = url.exc
            /\ raised_at' = 152
            /\ pc' = "raised"
            /\ UNCHANGED <<requests, response>>
       ELSE /\ response' \in FetchedResponses
            /\ requests' = Append(requests,
                   [method |-> method, url |-> url.val.s,
                    data |-> jsonify(data),
                    headers |-> send_headers(self, headers)])
            /\ pc' = ret
            /\ UNCHANGED <<exc, raised_at>>

get(self, path, data, headers, ret) == send(self, "GET", path, data, headers, ret)
put(self, path, data, headers, ret) == send(self, "PUT", path, data, headers, ret)
post(self, path, data, headers, ret) == send(self, "POST", path, data, headers, ret)
delete(self, path, data, headers, ret) == send(self, "DELETE", path, data, headers, ret)

(***************************************************************************)
(* core                                                                    *)
(***************************************************************************)
core_headers(api_token) ==
    [key \in {"Authorization", "Content-type"} |->
        IF key = "Authorization" THEN "Bearer " \o PyFormat(api_token)
        ELSE "application/json"]

core_path == <<"floating_ips?page=1&per_page=20">>

\* lines 178-184
core_get ==
    /\ pc = "core"
    /\ get(Rest(core_headers(module_params)), core_path, PyNone, PyNone, "l185")
    /\ UNCHANGED <<params, environ, module_params, l_status_code, l_json,
                   json_read, outputs>>

\* line 185
core_status_code ==
    /\ pc = "l185"
    /\ LET r == status_code(response) IN
       IF r.exc # NoExc
       THEN /\ exc' = r.exc
            /\ raised_at' = 141
            /\ pc' = "raised"
            /\ UNCHANGED l_status_code
       ELSE /\ l_status_code' = r.val
            /\ pc' = "l186"
            /\ UNCHANGED <<exc, raised_at>>
    /\ UNCHANGED <<params, environ, module_params, call, requests, response,
                   l_json, json_read, outputs>>

\* line 186
core_json ==
    /\ pc = "l186"
    /\ LET r == json(response) IN
       /\ json_read' = r.read
       /\ IF r.exc # NoExc
          THEN /\ exc' = r.exc
               /\ raised_at' = 132
               /\ pc' = "raised"
               /\ UNCHANGED l_json
          ELSE /\ l_json' = r.val
               /\ pc' = "l187"
               /\ UNCHANGED <<exc, raised_at>>
    /\ UNCHANGED <<params, environ, module_params, call, requests, response,
                   l_status_code, outputs>>

\* variant: the facts are reported as a change
core_exit_json_changed ==
    /\ pc = "l187"
    /\ l_status_code.n = StatusOK
    /\ outputs' = Append(outputs, exit_json(TRUE, l_json))
    /\ exc' = SystemExit(0)
    /\ raised_at' = 188
    /\ pc' = "raised"
    /\ UNCHANGED <<params, environ, module_params, call, requests, response,
                   l_status_code, l_json, json_read>>

\* lines 187-188
core_exit_json ==
    /\ pc = "l187"
    /\ l_status_code.n = StatusOK
    /\ outputs' = Append(outputs, exit_json(FALSE, l_json))
    /\ exc' = SystemExit(0)
    /\ raised_at' = 188
    /\ pc' = "raised"
    /\ UNCHANGED <<params, environ, module_params, call, requests, response,
                   l_status_code, l_json, json_read>>

fail_msg(status, message) ==
    "Error fecthing facts [" \o PyFormat(status) \o ": " \o PyFormat(message) \o "]"

\* variant: a failed fetch is tried again
core_fail_json_retry ==
    /\ pc = "l187"
    /\ l_status_code.n # StatusOK
    /\ pc' = "core"
    /\ UNCHANGED <<params, environ, module_params, call, requests, response,
                   l_status_code, l_json, json_read, exc, raised_at, outputs>>

\* lines 189-191
core_fail_json ==
    /\ pc = "l187"
    /\ l_status_code.n # StatusOK
    /\ LET j == json(response)
           m == Subscript(j.val, "message")
       IN  /\ json_read' = j.read
           /\ IF j.exc # NoExc
              THEN /\ exc' = j.exc
                   /\ raised_at' = 132
                   /\ UNCHANGED outputs
              ELSE IF m.exc # NoExc
              THEN /\ exc' = m.exc
                   /\ raised_at' = 191
                   /\ UNCHANGED outputs
              ELSE /\ outputs' = Append(outputs,
                          fail_json(fail_msg(l_status_code, m.val)))
                   /\ exc' = SystemExit(1)
                   /\ raised_at' = 190
    /\ pc' = "raised"
    /\ UNCHANGED <<params, environ, module_params, call, requests, response,
                   l_status_code, l_json>>

(***************************************************************************)
(* main, lines 206-209: the try block around core                          *)
(***************************************************************************)
\* variant: a bare except, which also catches SystemExit
IsExceptionBare(e) == TRUE

\* isinstance(e, Exception)
IsException(e) == e.type \notin {"SystemExit", "KeyboardInterrupt", "GeneratorExit"}

main_except ==
    /\ pc = "raised"
    /\ IsException(exc)
    /\ outputs' = Append(outputs, fail_json(exc.msg))
    /\ exc' = SystemExit(1)
    /\ raised_at' = 209
    /\ pc' = "exited"
    /\ UNCHANGED <<params, environ, module_params, call, requests, response,
                   l_status_code, l_json, json_read>>

\* an exception that main does not catch ends the process
main_exit ==
    /\ pc = "raised"
    /\ ~IsException(exc)
    /\ pc' = "exited"
    /\ UNCHANGED <<params, environ, module_params, call, requests, response,
                   l_status_code, l_json, json_read, exc, raised_at, outputs>>

Next ==
    \/ AnsibleModule
    \/ core_get
    \/ core_status_code
    \/ core_json
    \/ core_exit_json
    \/ core_fail_json
    \/ main_except
    \/ main_exit

Spec == Init /\ [][Next]_vars

\* a sequential program keeps running until it exits
FairSpec == Spec /\ WF_vars(Next)

(***************************************************************************)
(* The Rest class under an arbitrary caller: one call of a verb with any   *)
(* path, data and per-call headers, on a client built as core builds it.   *)
(***************************************************************************)
InitRest ==
    /\ pc = "rest"
    /\ params = PyStr("abc123")
    /\ environ = PyNone
    /\ module_params = PyStr("abc123")
    /\ call = NoCall
    /\ requests = <<>>
    /\ response = NoResponse
    /\ l_status_code = PyNone
    /\ l_json = PyNone
    /\ json_read = "unread"
    /\ exc = NoExc
    /\ raised_at = 0
    /\ outputs = <<>>

rest_get ==
    /\ pc = "rest"
    /\ \E path \in Paths, data \in Datas, headers \in CallHeaders :
          get(Rest(core_headers(module_params)), path, data, headers, "returned")
    /\ UNCHANGED <<params, environ, module_params, l_status_code, l_json,
                   json_read, outputs>>

rest_put ==
    /\ pc = "rest"
    /\ \E path \in Paths, data \in Datas, headers \in CallHeaders :
          put(Rest(core_headers(module_params)), path, data, headers, "returned")
    /\ UNCHANGED <<params, environ, module_params, l_status_code, l_json,
                   json_read, outputs>>

rest_post ==
    /\ pc = "rest"
    /\ \E path \in Paths, data \in Datas, headers \in CallHeaders :
          post(Rest(core_headers(module_params)), path, data, headers, "returned")
    /\ UNCHANGED <<params, environ, module_params, l_status_code, l_json,
                   json_read, outputs>>

rest_delete ==
    /\ pc = "rest"
    /\ \E path \in Paths, data \in Datas, headers \in CallHeaders :
          delete(Rest(core_headers(module_params)), path, data, headers, "returned")
    /\ UNCHANGED <<params, environ, module_params, l_status_code, l_json,
                   json_read, outputs>>

NextRest == rest_get \/ rest_put \/ rest_post \/ rest_delete

SpecRest == InitRest /\ [][NextRest]_vars

(***************************************************************************)
(* Properties                                                              *)
(***************************************************************************)
HasStatus(r) == "status" \in DOMAIN r.info
HasInfoBody(r) == "body" \in DOMAIN r.info
Fetched == Len(requests) = 1
Exited == pc = "exited"

\* the body is non-empty and decodes
ValidBody(r) == Truthy(r.body) /\ json_loads(r.body).exc = NoExc

\* the text Response.json has to decode is missing or does not decode
NoValidJson(r) ==
    IF Truthy(r.body) THEN json_loads(r.body).exc # NoExc
    ELSE ~HasInfoBody(r) \/ json_loads(r.info.body).exc # NoExc

\* C1: a response with status 200 and a body that is valid JSON ends the
\* invocation with exactly one result, a success with changed = false and
\* data = the parsed body, and no failure result is ever emitted.
C1_SuccessEchoesJson ==
    (Fetched /\ HasStatus(response) /\ response.info.status = 200
             /\ ValidBody(response))
    => /\ \A i \in DOMAIN outputs : outputs[i].kind = "success"
       /\ Exited =>
            outputs = << [kind |-> "success", changed |-> FALSE,
                          data |-> json_loads(response.body).val, msg |-> ""] >>

C1_Witness ==
    /\ Exited
    /\ HasStatus(response) /\ response.info.status = 200
    /\ response.body = PyText(<<LBRACE, StrTok("floating_ips"), COLON,
                                LBRACKET, RBRACKET, COMMA, StrTok("meta"),
                                COLON, LBRACE, StrTok("total"), COLON,
                                NumTok("0"), RBRACE, RBRACE>>)
    /\ Len(outputs) = 1
    /\ outputs[1].kind = "success"
    /\ outputs[1].changed = FALSE
    /\ outputs[1].data =
          PyDict([key \in {"floating_ips", "meta"} |->
                    IF key = "floating_ips" THEN PyList(<<>>)
                    ELSE PyDict([k2 \in {"total"} |-> PyNum("0")])])

\* C2: a response with a status other than 200 whose JSON is an object with
\* a message field ends in the failure text
\* "Error fetching facts [<status>: <message>]".
C2_ErrorFetchingFacts ==
    (Exited /\ Fetched /\ HasStatus(response) /\ response.info.status # 200
            /\ json(response).exc = NoExc
            /\ json(response).val.t = "dict"
            /\ "message" \in DOMAIN json(response).val.d)
    => outputs = << fail_json("Error fetching facts ["
                       \o ToString(response.info.status) \o ": "
                       \o PyFormat(json(response).val.d["message"]) \o "]") >>

\* C3: reading Response.json never raises, and it yields None whenever the
\* text it has to decode (the body, or the metadata body when the body is
\* absent or empty) is missing or is not valid JSON.
C3_JsonNeverRaises ==
    json_read # "unread"
    => /\ raised_at # 132
       /\ (pc = "l187" /\ NoValidJson(response)) => l_json = PyNone

\* C4: every invocation terminates, and when it has terminated exactly one
\* result has been emitted; at no time are there two results.
C4_ExactlyOneOutcome ==
    /\ [](Len(outputs) <= 1)
    /\ [](Exited => Len(outputs) = 1)
    /\ <>[](Exited /\ Len(outputs) = 1)

C4_Witness ==
    /\ Exited
    /\ Fetched
    /\ raised_at = 209
    /\ Len(outputs) = 1
    /\ outputs[1].kind = "failure"

\* C5: the request Rest.send issues carries every per-call header, which
\* overrides a default of the same name, and every default not overridden.
C5_HeadersMerged ==
    (pc = "returned" /\ Len(requests) = 1)
    => LET sent == requests[1].headers
           defaults == core_headers(module_params)
           percall == IF call.headers.t = "dict" THEN call.headers.d ELSE <<>>
       IN  /\ \A h \in DOMAIN percall :
                h \in DOMAIN sent /\ sent[h] = percall[h]
           /\ \A h \in DOMAIN defaults \ DOMAIN percall :
                h \in DOMAIN sent /\ sent[h] = defaults[h]

\* C6: a response with a status other than 200 whose parsed JSON is None
\* makes the message construction raise on indexing None; main catches it,
\* and the invocation ends in one failure whose msg is str() of that
\* exception, not the "Error ... facts" message, and in no success.
C6_NoneJsonSecondaryFailure ==
    (Fetched /\ HasStatus(response) /\ response.info.status # 200
             /\ json(response).exc = NoExc /\ json(response).val = PyNone)
    => /\ \A i \in DOMAIN outputs : outputs[i].kind = "failure"
       /\ (pc = "raised" /\ raised_at # 0) =>
             /\ raised_at = 191
             /\ exc.type = "TypeError"
             /\ IsException(exc)
             /\ outputs = <<>>
       /\ Exited =>
             outputs = << fail_json("'NoneType' object is not subscriptable") >>

C6_Witness ==
    /\ Exited
    /\ HasStatus(response) /\ response.info.status = 500
    /\ response.body = PyText(<<>>)
    /\ ~HasInfoBody(response)
    /\ outputs = << fail_json("'NoneType' object is not subscriptable") >>

\* C7: at most one request is issued, it is a GET of
\* floating_ips?page=1&per_page=20, and once a result has been emitted no
\* request is issued.
C7_SingleGet ==
    /\ [](/\ Len(requests) <= 1
          /\ \A i \in DOMAIN requests :
                /\ requests[i].method = "GET"
                /\ requests[i].url = baseurl \o "/floating_ips?page=1&per_page=20"
                /\ call.path = <<"floating_ips?page=1&per_page=20">>)
    /\ [][outputs # <<>> => requests' = requests]_vars
    /\ [][requests' # requests => outputs' = <<>>]_vars

C7_Witness ==
    /\ Exited
    /\ Len(requests) = 1
    /\ requests[1].method = "GET"
    /\ Len(outputs) = 1

\* C8: with no oauth_token parameter and DO_OAUTH_TOKEN unset the
\* invocation fails at validation: core is never entered, no request is
\* sent, and the one result is a failure.
C8_MissingTokenFailsFast ==
    (params = PyNone /\ environ = PyNone)
    => /\ pc \in {"main", "exited"}
       /\ requests = <<>>
       /\ call = NoCall
       /\ module_params = PyNone
       /\ Exited => (Len(outputs) = 1 /\ outputs[1].kind = "failure")

C8_Witness ==
    /\ params = PyNone
    /\ environ = PyNone
    /\ Exited
    /\ Len(outputs) = 1
    /\ outputs[1].kind = "failure"

\* C9: with the body absent or empty and a metadata body that is valid
\* JSON, Response.json is the parsed metadata body; with a non-empty body
\* the metadata body is not read.
C9_MetadataFallback ==
    json_read # "unread"
    => /\ (~Truthy(response.body) /\ HasInfoBody(response)
             /\ json_loads(response.info.body).exc = NoExc)
          => /\ json_read = "info"
             /\ raised_at # 132
             /\ pc = "l187" => l_json = json_loads(response.info.body).val
       /\ Truthy(response.body) => json_read = "body"

C9_Witness ==
    /\ pc = "l187"
    /\ response.body = PyNone
    /\ HasInfoBody(response)
    /\ json_read = "info"
    /\ l_json = PyDict([key \in {"message"} |-> PyStr("Unauthorized")])

C9_WitnessBody ==
    /\ pc = "l187"
    /\ Truthy(response.body)
    /\ HasInfoBody(response)
    /\ json_read = "body"

\* C10: the outcome depends on the status code alone: status 200 ends in a
\* success, with data None when the response carries no JSON that decodes,
\* and any other status ends in a failure.
C10_StatusAloneDecides ==
    (Exited /\ Fetched /\ HasStatus(response))
    => /\ Len(outputs) = 1
       /\ response.info.status = 200 =>
             /\ outputs[1].kind = "success"
             /\ NoValidJson(response) => outputs[1].data = PyNone
       /\ response.info.status # 200 => outputs[1].kind = "failure"

====
